---- MODULE Spec2Model ----
(***************************************************************************)
(* Model of the UFCStats scraping pipeline                                 *)
(* (src/scraping/scrape_ufcstats.py, src/scraping/scrape_odds.py).         *)
(*                                                                         *)
(* Every function of the pipeline is a small sequential machine with its   *)
(* own program counter; a caller starts a callee and waits for it.  The    *)
(* web site is the environment: each GET either raises a                   *)
(* requests.RequestException or serves one of the documents in `site`.     *)
(* Text is a sequence of one-character strings (or of atomic path tokens   *)
(* for URLs).                                                              *)
(***************************************************************************)
EXTENDS Integers, Sequences, FiniteSets, TLC

\* Python's None: None where the other values are strings, NoneSeq where
\* they are sequences (URLs, texts), NoSoup where they are documents.
None == "None"
NoneSeq == <<"<None>">>
NoSoup == [kind |-> "none"]

(***************************************************************************)
(* Bounds of the model.                                                    *)
(***************************************************************************)
MaxRetries == 4
MaxPages == 3        \* largest max_pages argument of scrape_event_urls
MaxLinks == 2        \* most <a href> anchors on one listing page
MaxText == 4         \* longest text handed to a normalizer
MaxPersons == 3      \* most "person" blocks on one fight page
MaxTables == 2       \* most tables on one fight page
MaxFights == 2       \* most rows of ufc_fights_raw.csv read back
MaxRows == 3         \* most rows of the fight table of one event page

(***************************************************************************)
(* Program constants.                                                      *)
(***************************************************************************)
DefaultRetries == 3

\* The texts the header of the totals table must contain.
HeaderMarkers == {"fighter", "kd", "sig. str."}

\* The requests.RequestException subclasses a GET can raise
\* (timeout, connection error, raise_for_status on a non-2xx answer).
Errs == {"Timeout", "HTTPError"}

(***************************************************************************)
(* Text and URLs.  A URL or href is a sequence of atomic tokens; "http" is *)
(* the only token whose text begins with the four characters h,t,t,p.      *)
(***************************************************************************)
SeqsUpTo(S, n) == UNION {[1..k -> S] : k \in 0..n}

\* Python `sub in s` on sequences.
Contains(s, sub) ==
    \E i \in 1..(Len(s) - Len(sub) + 1) : SubSeq(s, i, i + Len(sub) - 1) = sub

\* s.lstrip("/") and s.rstrip("/")
RECURSIVE LStripSlash(_)
LStripSlash(s) ==
    IF s # <<>> /\ Head(s) = "/" THEN LStripSlash(Tail(s)) ELSE s

RECURSIVE RStripSlash(_)
RStripSlash(s) ==
    IF s # <<>> /\ s[Len(s)] = "/" THEN RStripSlash(SubSeq(s, 1, Len(s) - 1)) ELSE s

\* href.startswith("http")
StartsWithHttp(href) == href # <<>> /\ href[1] = "http"

BASE_URL == <<"http", "://", "ufcstats.com">>
EVENTS_COMPLETED_URL == BASE_URL \o <<"/", "statistics", "/", "events", "/", "completed">>
EventMarker == <<"/", "event-details", "/">>

build_events_page_url(p) ==
    IF p = 0 THEN EVENTS_COMPLETED_URL
    ELSE EVENTS_COMPLETED_URL \o <<"?page=all">>

ListingURLs == {build_events_page_url(0), build_events_page_url(1)}

\* if href.startswith("http"): href  else: BASE_URL.rstrip("/") + "/" + href.lstrip("/")
EventUrlOf(href) ==
    IF StartsWithHttp(href) THEN href
    ELSE RStripSlash(BASE_URL) \o <<"/">> \o LStripSlash(href)

(***************************************************************************)
(* Python values and text.  A str is a sequence of one-character strings;  *)
(* a value that may be None, a number or a str carries its type.           *)
(***************************************************************************)
PyNone == [t |-> "none"]
PyInt(n) == [t |-> "int", v |-> n]
PyFloat(n, d) == [t |-> "float", num |-> n, den |-> d]     \* the float n/d
PyStr(x) == [t |-> "str", s |-> x]
PyPair(a, b) == [t |-> "pair", made |-> a, att |-> b]
PyRaise(e) == [t |-> "raise", exc |-> e]

\* bool(value)
Truthy(value) ==
    CASE value.t = "none" -> FALSE
      [] value.t = "int" -> value.v # 0
      [] value.t = "float" -> value.num # 0
      [] value.t = "str" -> value.s # <<>>

DigitVal == [c \in {"0", "1", "2", "3", "4", "5", "6", "7", "8", "9"} |->
               CASE c = "0" -> 0 [] c = "1" -> 1 [] c = "2" -> 2 [] c = "3" -> 3
                 [] c = "4" -> 4 [] c = "5" -> 5 [] c = "6" -> 6 [] c = "7" -> 7
                 [] c = "8" -> 8 [] c = "9" -> 9]
IsDigit(c) == c \in DOMAIN DigitVal
IsSpace(c) == c = " "

RECURSIVE LStrip(_)
LStrip(x) == IF x # <<>> /\ IsSpace(Head(x)) THEN LStrip(Tail(x)) ELSE x

RECURSIVE RStrip(_)
RStrip(x) ==
    IF x # <<>> /\ IsSpace(x[Len(x)]) THEN RStrip(SubSeq(x, 1, Len(x) - 1)) ELSE x

\* str.strip()
Strip(x) == LStrip(RStrip(x))

\* str.replace(c, "")
RECURSIVE Remove(_, _)
Remove(x, c) ==
    IF x = <<>> THEN <<>>
    ELSE IF Head(x) = c THEN Remove(Tail(x), c)
    ELSE <<Head(x)>> \o Remove(Tail(x), c)

\* The longest prefix of digits, what a greedy \d+ takes.
RECURSIVE DigitPrefix(_)
DigitPrefix(x) ==
    IF x # <<>> /\ IsDigit(Head(x)) THEN <<Head(x)>> \o DigitPrefix(Tail(x)) ELSE <<>>

AllDigits(x) == x # <<>> /\ \A i \in 1..Len(x) : IsDigit(x[i])

RECURSIVE Pow10(_)
Pow10(n) == IF n = 0 THEN 1 ELSE 10 * Pow10(n - 1)

\* The number a string of digits denotes.
RECURSIVE DigitsValue(_)
DigitsValue(x) ==
    IF x = <<>> THEN 0
    ELSE 10 * DigitsValue(SubSeq(x, 1, Len(x) - 1)) + DigitVal[x[Len(x)]]

HasSign(x) == x # <<>> /\ Head(x) \in {"+", "-"}
Unsigned(x) == IF HasSign(x) THEN Tail(x) ELSE x
SignOf(x) == IF x # <<>> /\ Head(x) = "-" THEN -1 ELSE 1

\* int(str): surrounding whitespace, an optional sign, digits; anything
\* else is a ValueError (ok = FALSE).
IntOfStr(x) ==
    LET body == Unsigned(Strip(x))
    IN  IF AllDigits(body)
        THEN [ok |-> TRUE, v |-> SignOf(Strip(x)) * DigitsValue(body)]
        ELSE [ok |-> FALSE, v |-> 0]

\* float(str): surrounding whitespace, an optional sign, digits with at
\* most one point and at least one digit; anything else is a ValueError.
FloatOfStr(x) ==
    LET body == Unsigned(Strip(x))
        ip == DigitPrefix(body)
        rest == SubSeq(body, Len(ip) + 1, Len(body))
        fp == IF rest # <<>> /\ Head(rest) = "." THEN Tail(rest) ELSE <<>>
        wellformed ==
            /\ \/ rest = <<>>
               \/ Head(rest) = "." /\ (fp = <<>> \/ AllDigits(fp))
            /\ Len(ip) + Len(fp) > 0
    IN  IF wellformed
        THEN [ok |-> TRUE, num |-> SignOf(Strip(x)) * DigitsValue(ip \o fp),
              den |-> Pow10(Len(fp))]
        ELSE [ok |-> FALSE, num |-> 0, den |-> 1]

\* value.split("of")
RECURSIVE SplitOf(_, _)
SplitOf(x, acc) ==
    IF x = <<>> THEN <<acc>>
    ELSE IF Len(x) >= 2 /\ x[1] = "o" /\ x[2] = "f"
         THEN <<acc>> \o SplitOf(SubSeq(x, 3, Len(x)), <<>>)
         ELSE SplitOf(Tail(x), Append(acc, Head(x)))

Placeholder == <<"-", "-">>

(***************************************************************************)
(* The text normalizers.                                                   *)
(***************************************************************************)
\* scrape_odds.parse_american_odds
parse_american_odds(text) ==
    IF text.t = "none" THEN PyNone
    ELSE IF text.t # "str" THEN PyRaise("AttributeError")      \* text.strip()
    ELSE LET x == Strip(text.s)
             m == IF HasSign(x) THEN <<Head(x)>> \o DigitPrefix(Tail(x))
                  ELSE DigitPrefix(x)
         IN  IF x = <<>> THEN PyNone
             ELSE IF DigitPrefix(Unsigned(x)) = <<>> THEN PyNone
             ELSE IF IntOfStr(m).ok THEN PyInt(IntOfStr(m).v) ELSE PyNone

\* parse_made_of
parse_made_of(value) ==
    IF ~Truthy(value) THEN PyPair(PyNone, PyNone)
    ELSE IF value.t # "str" THEN PyRaise("AttributeError")     \* value.split
    ELSE LET parts == SplitOf(value.s, <<>>)
         IN  IF Len(parts) # 2 THEN PyPair(PyNone, PyNone)
             ELSE LET made == IntOfStr(Strip(parts[1]))
                      attempted == IntOfStr(Strip(parts[2]))
                  IN  IF made.ok /\ attempted.ok
                      THEN PyPair(PyInt(made.v), PyInt(attempted.v))
                      ELSE PyPair(PyNone, PyNone)

\* parse_height_to_inches; the two patterns capture the same groups, the
\* second one matching whenever the first does.
parse_height_to_inches(text) ==
    IF text.t # "str" THEN PyNone
    ELSE LET x == Strip(text.s)
             feet == DigitPrefix(x)
             r1 == LStrip(SubSeq(x, Len(feet) + 1, Len(x)))
             r2 == IF r1 # <<>> THEN LStrip(Tail(r1)) ELSE <<>>
             inches == DigitPrefix(r2)
         IN  IF x = Placeholder \/ x = <<>> THEN PyNone
             ELSE IF feet = <<>> \/ r1 = <<>> \/ Head(r1) # "'" \/ inches = <<>>
                  THEN PyNone
             ELSE PyInt(DigitsValue(feet) * 12 + DigitsValue(inches))

\* parse_reach_to_inches
parse_reach_to_inches(text) ==
    IF text.t # "str" THEN PyNone
    ELSE LET x == Strip(text.s)
             f == FloatOfStr(Remove(x, "\""))
         IN  IF x = Placeholder \/ x = <<>> THEN PyNone
             ELSE IF f.ok THEN PyFloat(f.num, f.den) ELSE PyNone

\* parse_float_stat
parse_float_stat(text) ==
    IF text.t # "str" THEN PyNone
    ELSE LET x == Strip(text.s)
             f == FloatOfStr(Strip(Remove(x, "%")))
         IN  IF x = Placeholder \/ x = <<>> THEN PyNone
             ELSE IF f.ok THEN PyFloat(f.num, f.den) ELSE PyNone

(***************************************************************************)
(* The pages of the site.                                                  *)
(***************************************************************************)
hAbs1    == BASE_URL \o <<"/", "event-details", "/", "1">>
hRel1    == <<"/", "event-details", "/", "1">>
hRel2    == <<"/", "event-details", "/", "2">>
hFighter == <<"/", "fighter-details", "/", "7">>
hHttpRel == <<"http", "/", "event-details", "/", "3">>

\* The hrefs a listing page may carry: an absolute event link, the same
\* event as a relative link, another relative event link, a link that is no
\* event link, and a relative link whose first path segment is "http".
HrefPool == {hAbs1, hRel1, hRel2, hFighter, hHttpRel}

\* A listing page is the sequence of its <a href> values, in document order.
ListingDocs == {[kind |-> "listing", anchors |-> a] : a \in SeqsUpTo(HrefPool, MaxLinks)}

Txt1 == <<"1">>
Txt0 == <<"0">>
Txt2 == <<"2">>
TxtDashes == <<"-", "-">>
Txt2of5 == <<"2", " ", "o", "f", " ", "5">>
Txt1of2 == <<"1", " ", "o", "f", " ", "2">>
Txt0of0 == <<"0", " ", "o", "f", " ", "0">>
Txt2ofX == <<"2", " ", "o", "f", " ", "x">>
TxtNA == <<"N", "/", "A">>

NoLink == [present |-> FALSE, name |-> None, href |-> NoneSeq]

\* Person blocks that differ in their status text only.
StatusPersons ==
    {[status |-> st, link |-> NoLink] :
       st \in {NoneSeq, <<"W">>, <<"L">>, <<"W", "I", "N">>}}

\* The <p> texts of the knockdown, significant-strike and takedown cells.
KdCells == {<<Txt1, Txt0>>, <<TxtDashes, Txt1>>, <<Txt1, TxtDashes>>,
            <<<<>>, Txt2>>, <<Txt1>>}
SigCells == {<<Txt2of5, Txt1of2>>, <<TxtNA, Txt1of2>>, <<Txt2of5>>}
TdCells == {<<Txt1of2, Txt0of0>>, <<Txt1of2, Txt2ofX>>, <<>>}

FullRows == {[ncells |-> 10, kd |-> k, sig |-> g, td |-> t] :
               k \in KdCells, g \in SigCells, t \in TdCells}
GoodRow == [ncells |-> 6, kd |-> <<Txt1, Txt0>>, sig |-> <<Txt2of5, Txt1of2>>,
            td |-> <<Txt1of2, Txt0of0>>]
ShortRow == [ncells |-> 5, kd |-> <<Txt1, Txt0>>, sig |-> <<Txt2of5, Txt1of2>>,
             td |-> <<>>]

\* Tables that differ in what makes them (un)usable as the totals table.
SimpleTables ==
    {[thead |-> FALSE, header |-> {}, tbody |-> TRUE, rows |-> <<GoodRow>>],
     [thead |-> TRUE, header |-> {"fighter", "kd"}, tbody |-> TRUE, rows |-> <<GoodRow>>],
     [thead |-> TRUE, header |-> HeaderMarkers, tbody |-> FALSE, rows |-> <<>>],
     [thead |-> TRUE, header |-> HeaderMarkers, tbody |-> TRUE, rows |-> <<>>],
     [thead |-> TRUE, header |-> HeaderMarkers, tbody |-> TRUE, rows |-> <<ShortRow>>],
     [thead |-> TRUE, header |-> HeaderMarkers, tbody |-> TRUE, rows |-> <<GoodRow>>],
     [thead |-> TRUE, header |-> HeaderMarkers, tbody |-> TRUE, rows |-> <<ShortRow, GoodRow>>]}

\* Totals tables over every combination of cell texts.
FullTables ==
    {[thead |-> TRUE, header |-> HeaderMarkers, tbody |-> TRUE, rows |-> <<r>>] :
       r \in FullRows}

DetailDocs ==
    {[kind |-> "fight", persons |-> ps, tables |-> ts] :
       ps \in SeqsUpTo(StatusPersons, MaxPersons),
       ts \in SeqsUpTo(SimpleTables, MaxTables) \cup {<<t>> : t \in FullTables}}

FightUrl(n) == BASE_URL \o <<"/", "fight-details", "/", n>>

\* Event pages: rows that give a fight (data-link; anchor of column 0
\* with an empty data-link) and rows that are skipped (6 columns; no link).
RowLinked ==
    [ncols |-> 10, paras |-> <<"Jon Jones", "Stipe Miocic">>, col1 |-> "Jon Jones Stipe Miocic",
     weight |-> "Heavyweight", data_link |-> FightUrl("1"),
     a |-> [present |-> FALSE, href |-> NoneSeq]]
RowAnchor ==
    [ncols |-> 7, paras |-> <<"Alex Pereira">>, col1 |-> "Alex Pereira",
     weight |-> "Light Heavyweight", data_link |-> <<>>,
     a |-> [present |-> TRUE, href |-> FightUrl("2")]]
RowShort ==
    [ncols |-> 6, paras |-> <<"A", "B">>, col1 |-> "A B",
     weight |-> "", data_link |-> FightUrl("3"),
     a |-> [present |-> FALSE, href |-> NoneSeq]]
RowNoLink ==
    [ncols |-> 10, paras |-> <<"C", "D">>, col1 |-> "C D",
     weight |-> "Flyweight", data_link |-> NoneSeq,
     a |-> [present |-> TRUE, href |-> NoneSeq]]

DateItem == [present |-> TRUE, labelled |-> TRUE, value |-> "March 2, 2024"]
NoDateItem == [present |-> FALSE, labelled |-> FALSE, value |-> ""]

EventDocs ==
    {[kind |-> "event", date_item |-> NoDateItem, table |-> FALSE, tbody |-> FALSE,
      rows |-> <<>>],
     [kind |-> "event", date_item |-> DateItem, table |-> TRUE, tbody |-> TRUE,
      rows |-> <<RowLinked>>],
     [kind |-> "event", date_item |-> NoDateItem, table |-> TRUE, tbody |-> TRUE,
      rows |-> <<RowShort, RowAnchor, RowNoLink, RowLinked>>]}

\* Rows whose only anchor has an empty href, and with both a data-link and
\* an anchor.
RowEmptyHref ==
    [ncols |-> 7, paras |-> <<"E", "F">>, col1 |-> "E F",
     weight |-> "Bantamweight", data_link |-> NoneSeq,
     a |-> [present |-> TRUE, href |-> <<>>]]
RowBoth ==
    [ncols |-> 8, paras |-> <<"G", "H">>, col1 |-> "G H",
     weight |-> "Welterweight", data_link |-> FightUrl("4"),
     a |-> [present |-> TRUE, href |-> FightUrl("5")]]

RowPool == {RowLinked, RowAnchor, RowShort, RowNoLink, RowEmptyHref, RowBoth}

\* The event pages one call of scrape_fights_for_event may meet: with or
\* without the date, the table and its body, and any rows in the body.
RowDocs ==
    {[kind |-> "event", date_item |-> di, table |-> tb[1], tbody |-> tb[2], rows |-> rs] :
       di \in {DateItem, NoDateItem},
       tb \in {<<FALSE, FALSE>>, <<TRUE, FALSE>>, <<TRUE, TRUE>>},
       rs \in SeqsUpTo(RowPool, MaxRows)} \
    {d \in {[kind |-> "event", date_item |-> di, table |-> tb[1], tbody |-> tb[2], rows |-> rs] :
               di \in {DateItem, NoDateItem},
               tb \in {<<FALSE, FALSE>>, <<TRUE, FALSE>>},
               rs \in SeqsUpTo(RowPool, MaxRows)} : d.rows # <<>>}

\* The fight pages scrape_all meets: a complete one and a bare one.
AllFightDocs ==
    {[kind |-> "fight",
      persons |-> <<[status |-> <<"W">>, link |-> NoLink],
                    [status |-> <<"L">>, link |-> NoLink]>>,
      tables |-> <<[thead |-> TRUE, header |-> HeaderMarkers, tbody |-> TRUE,
                    rows |-> <<GoodRow>>]>>],
     [kind |-> "fight", persons |-> <<>>, tables |-> <<>>]}

\* The anchors of class b-link a person block may hold: the same profile
\* under two spellings of the name, another profile, an anchor whose href
\* is empty, and no anchor.
hJones == BASE_URL \o <<"/", "fighter-details", "/", "X">>
hMiocic == BASE_URL \o <<"/", "fighter-details", "/", "Y">>
LinkPool ==
    {[present |-> TRUE, name |-> "Jon Jones", href |-> hJones],
     [present |-> TRUE, name |-> "J. Jones", href |-> hJones],
     [present |-> TRUE, name |-> "Stipe Miocic", href |-> hMiocic],
     [present |-> TRUE, name |-> "Nobody", href |-> <<>>],
     NoLink}

Corner(l) == [status |-> NoneSeq, link |-> l]
Bystander == Corner([present |-> TRUE, name |-> "Referee",
                     href |-> BASE_URL \o <<"/", "referee">>])

\* The fight pages build_fighter_index_from_fights meets: none, one or two
\* person blocks, and two followed by further ones.
IndexDocs ==
    {[kind |-> "fight", persons |-> ps, tables |-> <<>>] :
       ps \in SeqsUpTo({Corner(l) : l \in LinkPool}, 2)
               \cup {<<Corner(a), Corner(b)>> \o more :
                       a \in LinkPool, b \in LinkPool,
                       more \in SeqsUpTo({Bystander}, MaxPersons - 2)}}

\* The listing pages scrape_all meets: the latest events, all events.
LatestDoc == [kind |-> "listing", anchors |-> <<hAbs1>>]
AllDoc == [kind |-> "listing", anchors |-> <<hRel1, hRel2>>]


\* The families of documents a specification lets the site serve.
Family(name) ==
    CASE name = "none" -> {}
      [] name = "listings" -> ListingDocs
      [] name = "details" -> DetailDocs
      [] name = "latest" -> {LatestDoc}
      [] name = "all" -> {AllDoc}
      [] name = "events" -> EventDocs
      [] name = "fights" -> AllFightDocs
      [] name = "index" -> IndexDocs
      [] name = "rows" -> RowDocs

\* fixed: the one page a listing URL shows all through a run, when it has one.
NoSite == [listing |-> [u \in ListingURLs |-> "none"], event |-> "none", fight |-> "none",
           fixed |-> [u \in ListingURLs |-> NoSoup]]

VARIABLES
    site,        \* which family of documents the site serves, per kind of page
    \* ---- fetch_page ----
    url,         \* argument url
    retries,     \* argument retries
    attempt,     \* loop variable of `for attempt in range(1, retries + 1)`
    last_err,    \* local last_err
    fstatus,     \* "idle" | "running" | "returned" | "raised"
    soup,        \* the returned BeautifulSoup document
    raised,      \* the error the RuntimeError message carries
    log,         \* history: outcome of every GET of this call, in order
    slept,       \* history: number of time.sleep(sleep_seconds) calls
    n_ok,        \* history: number of GETs answered with a page, over the run
    \* ---- scrape_event_urls ----
    max_pages,        \* argument max_pages
    page,             \* loop variable of `for page in range(max_pages)`
    all_event_urls,   \* local all_event_urls
    seen,             \* local seen
    page_event_urls,  \* local page_event_urls
    anchors,          \* the anchors of soup.find_all("a", href=True) still to visit
    epc,              \* "idle" | "loop" | "fetching" | "scan" | "returned"
    hist,             \* history: per loop iteration begun, its page, its outcome
                      \* and the event URLs its page had to add
    \* ---- scrape_fight_details ----
    d_url,       \* argument fight_url
    dpc,         \* "idle" | "call" | "fetching" | "done"
    result,      \* the dict returned
    d_doc,       \* history: the page the result was read from
    \* ---- scrape_fights_for_event ----
    g_event_url, \* argument event_url
    gpc,         \* "idle" | "call" | "fetching" | "done"
    g_fights,    \* the list returned
    g_doc,       \* history: the page the list was read from
    \* ---- scrape_all ----
    a_max_pages, \* argument max_pages
    apc,         \* "idle" | "start" | "events" | "event_loop" | "fights" |
                 \* "fight_loop" | "details" | "done"
    event_urls,  \* local event_urls
    e_i,         \* position of `for event_url in event_urls`
    fights,      \* local fights
    f_i,         \* position of `for fight in fights`
    all_fights,  \* local all_fights
    files,       \* the CSV files under data/raw
    writes,      \* history: number of to_csv calls, of either stage
    ev_hist,     \* history: per event visited, its URL and the fights found
    det_hist,    \* history: per fight visited, its URL and the details got
    \* ---- the text normalizers ----
    n_fun,       \* the normalizer called
    n_arg,       \* its argument
    n_res,       \* what the call gave: a value, or the exception it raised
    npc,         \* "idle" | "call" | "done"
    \* ---- extract_fighter_urls_from_fight ----
    x_url,       \* argument fight_url
    xpc,         \* "idle" | "call" | "fetching" | "done"
    info,        \* the dict returned
    x_doc,       \* history: the page the dict was read from
    \* ---- build_fighter_index_from_fights ----
    ipc,               \* "idle" | "start" | "loop" | "extract" | "done"
    unique_fight_urls, \* local unique_fight_urls
    u_i,               \* position of `for fight_url in unique_fight_urls`
    fighter_rows,      \* local fighter_rows
    idx_hist           \* history: per fight visited, its URL and its page

fetchVars == <<url, retries, attempt, last_err, fstatus, soup, raised, log, slept, n_ok>>
eventVars == <<max_pages, page, all_event_urls, seen, page_event_urls, anchors, epc, hist>>

detailVars == <<d_url, dpc, result, d_doc>>
fightsVars == <<g_event_url, gpc, g_fights, g_doc>>
allVars == <<a_max_pages, apc, event_urls, e_i, fights, f_i, all_fights, files,
             writes, ev_hist, det_hist>>
normVars == <<n_fun, n_arg, n_res, npc>>
extractVars == <<x_url, xpc, info, x_doc>>
indexVars == <<ipc, unique_fight_urls, u_i, fighter_rows, idx_hist>>

vars == <<site, fetchVars, eventVars, detailVars, fightsVars, allVars, normVars,
          extractVars, indexVars>>

(***************************************************************************)
(* fetch_page                                                              *)
(***************************************************************************)
FetchIdle ==
    /\ url = NoneSeq /\ retries = 0 /\ attempt = 0 /\ last_err = None
    /\ fstatus = "idle" /\ soup = NoSoup /\ raised = None
    /\ log = <<>> /\ slept = 0 /\ n_ok = 0

\* Entry of fetch_page(u, r): last_err = None, the loop starts at attempt 1.
FetchStart(u, r) ==
    /\ url' = u /\ retries' = r /\ attempt' = 1 /\ last_err' = None
    /\ fstatus' = "running" /\ soup' = NoSoup /\ raised' = None
    /\ log' = <<>> /\ slept' = 0 /\ n_ok' = n_ok

\* The caller has taken the result (or caught the error).
FetchReset ==
    /\ url' = NoneSeq /\ retries' = 0 /\ attempt' = 0 /\ last_err' = None
    /\ fstatus' = "idle" /\ soup' = NoSoup /\ raised' = None
    /\ log' = <<>> /\ slept' = 0 /\ n_ok' = n_ok

\* The documents the site may serve for u.
Served(u) ==
    IF u \in ListingURLs
    THEN IF site.fixed[u] # NoSoup THEN {site.fixed[u]} ELSE Family(site.listing[u])
    ELSE IF Contains(u, EventMarker) THEN Family(site.event)
    ELSE Family(site.fight)

\* The loop written as range(1, retries + 2): one attempt too many.
MoreAttempts_OffByOne == attempt <= retries + 1

\* The loop condition of `for attempt in range(1, retries + 1)`.
MoreAttempts == attempt <= retries

\* requests.get succeeds, raise_for_status passes: return the parsed page.
RequestSucceeds ==
    /\ fstatus = "running" /\ MoreAttempts
    /\ \E doc \in Served(url) : soup' = doc
    /\ fstatus' = "returned"
    /\ log' = Append(log, "ok")
    /\ n_ok' = n_ok + 1
    /\ UNCHANGED <<site, url, retries, attempt, last_err, raised, slept>>

\* requests.get or raise_for_status raises: remember the error, sleep, loop.
RequestFails ==
    /\ fstatus = "running" /\ MoreAttempts
    /\ \E e \in Errs :
         /\ last_err' = e
         /\ log' = Append(log, e)
    /\ slept' = slept + 1
    /\ attempt' = attempt + 1
    /\ UNCHANGED <<site, url, retries, fstatus, soup, raised, n_ok>>

\* The loop is over without a return: raise RuntimeError(... last_err).
RaiseExhausted ==
    /\ fstatus = "running" /\ ~MoreAttempts
    /\ fstatus' = "raised"
    /\ raised' = last_err
    /\ UNCHANGED <<site, url, retries, attempt, last_err, soup, log, slept, n_ok>>

FetchStep == RequestSucceeds \/ RequestFails \/ RaiseExhausted

(***************************************************************************)
(* scrape_event_urls                                                       *)
(***************************************************************************)
EventsIdle ==
    /\ max_pages = 0 /\ page = 0 /\ all_event_urls = <<>> /\ seen = {}
    /\ page_event_urls = <<>> /\ anchors = <<>> /\ epc = "idle" /\ hist = <<>>

\* Entry of scrape_event_urls(mp).
EventsStart(mp) ==
    /\ max_pages' = mp /\ page' = 0 /\ all_event_urls' = <<>> /\ seen' = {}
    /\ page_event_urls' = <<>> /\ anchors' = <<>> /\ epc' = "loop" /\ hist' = <<>>

SetLast(h, o) == [h EXCEPT ![Len(h)].out = o]

\* The event URLs a page adds to a run that already knows `known`: the
\* hrefs carrying the marker, made absolute, first occurrences only.
RECURSIVE Fresh(_, _)
Fresh(doc, known) ==
    IF doc = <<>> THEN <<>>
    ELSE LET u == EventUrlOf(Head(doc))
         IN  IF Contains(Head(doc), EventMarker) /\ u \notin known
             THEN <<u>> \o Fresh(Tail(doc), known \cup {u})
             ELSE Fresh(Tail(doc), known)

\* Loop head with an iteration left: build the page URL and fetch it.
EventsFetchPage ==
    /\ epc = "loop" /\ page < max_pages
    /\ FetchStart(build_events_page_url(page), DefaultRetries)
    /\ epc' = "fetching"
    /\ UNCHANGED <<site, max_pages, page, all_event_urls, seen, page_event_urls,
                   anchors, hist>>

\* Loop head, range(max_pages) is used up: return all_event_urls.
EventsLoopEnd ==
    /\ epc = "loop" /\ ~(page < max_pages)
    /\ epc' = "returned"
    /\ UNCHANGED <<site, fetchVars, max_pages, page, all_event_urls, seen,
                   page_event_urls, anchors, hist>>

\* The fetch error is not caught: it leaves scrape_event_urls.
EventsFetchError_Propagates ==
    /\ epc = "fetching" /\ fstatus = "raised"
    /\ FetchReset
    /\ hist' = Append(hist, [page |-> page, out |-> "error", fresh |-> <<>>])
    /\ epc' = "raised"
    /\ UNCHANGED <<site, max_pages, page, all_event_urls, seen, page_event_urls,
                   anchors>>

\* except Exception: print and break.
EventsFetchError ==
    /\ epc = "fetching" /\ fstatus = "raised"
    /\ FetchReset
    /\ hist' = Append(hist, [page |-> page, out |-> "error", fresh |-> <<>>])
    /\ epc' = "returned"
    /\ UNCHANGED <<site, max_pages, page, all_event_urls, seen, page_event_urls,
                   anchors>>

\* soup = fetch_page(page_url) returned; page_event_urls = [].
EventsGotPage ==
    /\ epc = "fetching" /\ fstatus = "returned"
    /\ anchors' = soup.anchors
    /\ page_event_urls' = <<>>
    /\ hist' = Append(hist, [page |-> page, out |-> "scan",
                             fresh |-> Fresh(soup.anchors, {all_event_urls[i] : i \in 1..Len(all_event_urls)})])
    /\ FetchReset
    /\ epc' = "scan"
    /\ UNCHANGED <<site, max_pages, page, all_event_urls, seen>>

\* The membership test left out: every event link is taken as new.
IsNew_NoTest(event_url, s) == TRUE

\* `if event_url not in seen`
IsNew(event_url, s) == event_url \notin s

\* One pass of the body of `for a in soup.find_all("a", href=True)`.
EventsScanLink ==
    /\ epc = "scan" /\ anchors # <<>>
    /\ LET href == Head(anchors)
           event_url == EventUrlOf(href)
       IN  IF Contains(href, EventMarker) /\ IsNew(event_url, seen)
           THEN /\ seen' = seen \cup {event_url}
                /\ all_event_urls' = Append(all_event_urls, event_url)
                /\ page_event_urls' = Append(page_event_urls, event_url)
           ELSE UNCHANGED <<seen, all_event_urls, page_event_urls>>
    /\ anchors' = Tail(anchors)
    /\ UNCHANGED <<site, fetchVars, max_pages, page, epc, hist>>

\* All anchors visited and the page gave no new URL: break.
EventsPageEmpty ==
    /\ epc = "scan" /\ anchors = <<>>
    /\ Len(page_event_urls) = 0
    /\ hist' = SetLast(hist, "empty")
    /\ epc' = "returned"
    /\ UNCHANGED <<site, fetchVars, max_pages, page, all_event_urls, seen,
                   page_event_urls, anchors>>

\* All anchors visited, the page gave new URLs: sleep, next page.
EventsNextPage ==
    /\ epc = "scan" /\ anchors = <<>>
    /\ Len(page_event_urls) # 0
    /\ hist' = SetLast(hist, "new")
    /\ page' = page + 1
    /\ epc' = "loop"
    /\ UNCHANGED <<site, fetchVars, max_pages, all_event_urls, seen,
                   page_event_urls, anchors>>

EventsStep ==
    \/ EventsFetchPage \/ EventsLoopEnd \/ EventsFetchError \/ EventsGotPage
    \/ EventsScanLink \/ EventsPageEmpty \/ EventsNextPage

(***************************************************************************)
(* scrape_fight_details.  A fight page is its "person" blocks and its      *)
(* tables of class b-fight-details__table, in document order.  A block     *)
(* has the text of its status tag (NoneSeq without one) and its b-link     *)
(* anchor; a table has its header, read as the set of the marker texts     *)
(* its lower-cased text contains, and its rows of class                    *)
(* b-fight-details__table-row; a row has its number of cells and the <p>   *)
(* texts, whitespace stripped, of the cells 1, 2 and 5.                    *)
(***************************************************************************)
MinCells == 6

\* The test written as `len(cells) < 2`: enough for the KD cell only.
TooFewCells_Two(row) == row.ncells < 2

\* `if len(cells) < 6`
TooFewCells(row) == row.ncells < MinCells

StatKeys == {"red_kd", "blue_kd",
             "red_sig_str_landed", "red_sig_str_attempted",
             "blue_sig_str_landed", "blue_sig_str_attempted",
             "red_td_landed", "red_td_attempted",
             "blue_td_landed", "blue_td_attempted"}

\* status.get_text(strip=True) if status else ""
StatusText(person) == IF person.status = NoneSeq THEN <<>> ELSE person.status

\* The two tests in the other order: blue first.
Winner_BlueFirst(persons) ==
    IF Len(persons) >= 2
    THEN IF Contains(StatusText(persons[2]), <<"W">>) THEN "Blue"
         ELSE IF Contains(StatusText(persons[1]), <<"W">>) THEN "Red"
         ELSE None
    ELSE None

\* 1) Winner parsing
Winner(persons) ==
    IF Len(persons) >= 2
    THEN IF Contains(StatusText(persons[1]), <<"W">>) THEN "Red"
         ELSE IF Contains(StatusText(persons[2]), <<"W">>) THEN "Blue"
         ELSE None
    ELSE None

\* 2) The first table with a thead whose text contains the three markers;
\*    0 when there is none.
IsTotals(table) == table.thead /\ HeaderMarkers \subseteq table.header

RECURSIVE FindTotals(_, _)
FindTotals(tables, i) ==
    IF i > Len(tables) THEN 0
    ELSE IF IsTotals(tables[i]) THEN i
    ELSE FindTotals(tables, i + 1)

\* int(text or 0)
KdInt(text) == IF text = <<>> THEN [ok |-> TRUE, v |-> 0] ELSE IntOfStr(text)

\* The KD block: both assignments sit in one try, `except: pass`.
WithKd(r, kd_ps) ==
    IF Len(kd_ps) >= 2
    THEN LET red == KdInt(kd_ps[1])
             blue == KdInt(kd_ps[2])
         IN  IF ~red.ok THEN r
             ELSE IF ~blue.ok THEN [r EXCEPT !.red_kd = PyInt(red.v)]
             ELSE [r EXCEPT !.red_kd = PyInt(red.v), !.blue_kd = PyInt(blue.v)]
    ELSE r

\* The SIG STR block.
WithSig(r, sig_ps) ==
    IF Len(sig_ps) >= 2
    THEN LET rs == parse_made_of(PyStr(sig_ps[1]))
             bs == parse_made_of(PyStr(sig_ps[2]))
         IN  [r EXCEPT !.red_sig_str_landed = rs.made,
                       !.red_sig_str_attempted = rs.att,
                       !.blue_sig_str_landed = bs.made,
                       !.blue_sig_str_attempted = bs.att]
    ELSE r

\* The TD block.
WithTd(r, td_ps) ==
    IF Len(td_ps) >= 2
    THEN LET rt == parse_made_of(PyStr(td_ps[1]))
             bt == parse_made_of(PyStr(td_ps[2]))
         IN  [r EXCEPT !.red_td_landed = rt.made,
                       !.red_td_attempted = rt.att,
                       !.blue_td_landed = bt.made,
                       !.blue_td_attempted = bt.att]
    ELSE r

\* The body of scrape_fight_details after a successful fetch.
ExtractDetails(fight_url, doc) ==
    LET r0 == [fight_url |-> fight_url,
               winner |-> Winner(doc.persons),
               red_kd |-> PyNone, blue_kd |-> PyNone,
               red_sig_str_landed |-> PyNone, red_sig_str_attempted |-> PyNone,
               blue_sig_str_landed |-> PyNone, blue_sig_str_attempted |-> PyNone,
               red_td_landed |-> PyNone, red_td_attempted |-> PyNone,
               blue_td_landed |-> PyNone, blue_td_attempted |-> PyNone]
        i == FindTotals(doc.tables, 1)
    IN  IF i = 0 THEN r0
        ELSE IF ~doc.tables[i].tbody THEN r0
        ELSE IF doc.tables[i].rows = <<>> THEN r0
        ELSE IF TooFewCells(doc.tables[i].rows[1]) THEN r0
        ELSE LET row == doc.tables[i].rows[1]
             IN  WithTd(WithSig(WithKd(r0, row.kd), row.sig), row.td)

DetailsIdle ==
    /\ d_url = NoneSeq /\ dpc = "idle" /\ result = <<>> /\ d_doc = NoSoup

\* The caller has taken the dict.
DetailsReset ==
    /\ d_url' = NoneSeq /\ dpc' = "idle" /\ result' = <<>> /\ d_doc' = NoSoup

\* Entry of scrape_fight_details(u).
DetailsStart(u) ==
    /\ d_url' = u /\ dpc' = "call" /\ result' = <<>> /\ d_doc' = NoSoup

\* soup = fetch_page(fight_url)
DetailsFetch ==
    /\ dpc = "call"
    /\ FetchStart(d_url, DefaultRetries)
    /\ dpc' = "fetching"
    /\ UNCHANGED <<site, d_url, result, d_doc>>

\* except Exception: return {}
DetailsFetchError ==
    /\ dpc = "fetching" /\ fstatus = "raised"
    /\ FetchReset
    /\ result' = <<>>
    /\ dpc' = "done"
    /\ UNCHANGED <<site, d_url, d_doc>>

\* The page came: read winner and statistics off it.
DetailsExtract ==
    /\ dpc = "fetching" /\ fstatus = "returned"
    /\ result' = ExtractDetails(d_url, soup)
    /\ d_doc' = soup
    /\ FetchReset
    /\ dpc' = "done"
    /\ UNCHANGED <<site, d_url>>

(***************************************************************************)
(* scrape_fights_for_event.  An event page is its first list item of       *)
(* class b-list__box-list-item, its first table of class                   *)
(* b-fight-details__table, and the rows of that table's body; a row has    *)
(* its number of columns, the <p> texts and the whole text of column 1,    *)
(* the text of column 6, its data-link attribute and the first anchor of   *)
(* column 0.                                                               *)
(***************************************************************************)
MinCols == 7

\* `not fight_url`: None or the empty string.
Falsy(u) == u = NoneSeq \/ u = <<>>

\* The event date: the text after "Date:" of the first list item.
EventDate(doc) ==
    IF doc.date_item.present /\ doc.date_item.labelled THEN doc.date_item.value
    ELSE None

\* The fight URL of a row without the fallback: data-link only.
RowFightUrl_NoFallback(row) == row.data_link

\* The fight URL of a row: data-link, else the href of the first anchor of
\* column 0.
RowFightUrl(row) ==
    IF ~Falsy(row.data_link) THEN row.data_link
    ELSE IF row.a.present /\ row.a.href # NoneSeq THEN row.a.href
    ELSE row.data_link

\* The dict appended for a row.
FightRef(event_url, event_date, row) ==
    [event_url |-> event_url,
     fight_url |-> RowFightUrl(row),
     red_fighter |-> IF Len(row.paras) >= 2 THEN row.paras[1] ELSE row.col1,
     blue_fighter |-> IF Len(row.paras) >= 2 THEN row.paras[2] ELSE "",
     weight_class |-> row.weight,
     event_date |-> event_date]

\* for row in rows: ...
RECURSIVE RowsToFights(_, _, _)
RowsToFights(event_url, event_date, rows) ==
    IF rows = <<>> THEN <<>>
    ELSE LET row == Head(rows)
             rest == RowsToFights(event_url, event_date, Tail(rows))
         IN  IF row.ncols < MinCols THEN rest
             ELSE IF Falsy(RowFightUrl(row)) THEN rest
             ELSE <<FightRef(event_url, event_date, row)>> \o rest

\* The body of scrape_fights_for_event after a successful fetch.
FightsOf(event_url, doc) ==
    IF ~doc.table THEN <<>>
    ELSE IF ~doc.tbody THEN <<>>
    ELSE RowsToFights(event_url, EventDate(doc), doc.rows)

FightsIdle ==
    /\ g_event_url = NoneSeq /\ gpc = "idle" /\ g_fights = <<>> /\ g_doc = NoSoup

\* The caller has taken the list.
FightsReset ==
    /\ g_event_url' = NoneSeq /\ gpc' = "idle" /\ g_fights' = <<>> /\ g_doc' = NoSoup

\* Entry of scrape_fights_for_event(u).
FightsStart(u) ==
    /\ g_event_url' = u /\ gpc' = "call" /\ g_fights' = <<>> /\ g_doc' = NoSoup

\* soup = fetch_page(event_url)
FightsFetch ==
    /\ gpc = "call"
    /\ FetchStart(g_event_url, DefaultRetries)
    /\ gpc' = "fetching"
    /\ UNCHANGED <<site, g_event_url, g_fights, g_doc>>

\* The fetch error is not caught: it leaves scrape_fights_for_event.
FightsFetchError_Propagates ==
    /\ gpc = "fetching" /\ fstatus = "raised"
    /\ FetchReset
    /\ g_fights' = <<>>
    /\ gpc' = "raised"
    /\ UNCHANGED <<site, g_event_url, g_doc>>

\* except Exception: return []
FightsFetchError ==
    /\ gpc = "fetching" /\ fstatus = "raised"
    /\ FetchReset
    /\ g_fights' = <<>>
    /\ gpc' = "done"
    /\ UNCHANGED <<site, g_event_url, g_doc>>

\* The page came: read the fights off it.
FightsExtract ==
    /\ gpc = "fetching" /\ fstatus = "returned"
    /\ g_fights' = FightsOf(g_event_url, soup)
    /\ g_doc' = soup
    /\ FetchReset
    /\ gpc' = "done"
    /\ UNCHANGED <<site, g_event_url>>

(***************************************************************************)
(* scrape_all.  A dict is a function from its keys; {} is <<>>.            *)
(***************************************************************************)
\* A CSV file: whether it exists, and its rows.
NoFile == [exists |-> FALSE, rows |-> <<>>]
File(rows) == [exists |-> TRUE, rows |-> rows]

\* {**a, **b}: the keys of both, b's value where both have the key.
Update(a, b) ==
    [k \in DOMAIN a \cup DOMAIN b |-> IF k \in DOMAIN b THEN b[k] ELSE a[k]]

\* The details left out of the merge.
Merged_NoDetails(event_url, fight, details) ==
    Update([event_url |-> event_url], fight)

\* {"event_url": event_url, **fight, **details}
Merged(event_url, fight, details) ==
    Update(Update([event_url |-> event_url], fight), details)

AllIdle ==
    /\ a_max_pages = 0 /\ apc = "idle" /\ event_urls = <<>> /\ e_i = 0
    /\ fights = <<>> /\ f_i = 0 /\ all_fights = <<>>
    /\ files = [fights |-> NoFile, fighters |-> NoFile]
    /\ writes = 0 /\ ev_hist = <<>> /\ det_hist = <<>>

\* event_urls = scrape_event_urls(max_pages=max_pages): the call
AllCallEvents ==
    /\ apc = "start"
    /\ EventsStart(a_max_pages)
    /\ apc' = "events"
    /\ UNCHANGED <<site, fetchVars, a_max_pages, event_urls, e_i, fights, f_i,
                   all_fights, files, writes, ev_hist, det_hist>>

\* ... and its return; all_fights = []
AllGotEvents ==
    /\ apc = "events" /\ epc = "returned"
    /\ event_urls' = all_event_urls
    /\ e_i' = 1
    /\ all_fights' = <<>>
    /\ apc' = "event_loop"
    /\ UNCHANGED <<site, fetchVars, eventVars, a_max_pages, fights, f_i, files,
                   writes, ev_hist, det_hist>>

\* for event_url in event_urls: fights = scrape_fights_for_event(event_url)
AllNextEvent ==
    /\ apc = "event_loop" /\ e_i <= Len(event_urls)
    /\ FightsStart(event_urls[e_i])
    /\ apc' = "fights"
    /\ UNCHANGED <<site, fetchVars, eventVars, a_max_pages, event_urls, e_i,
                   fights, f_i, all_fights, files, writes, ev_hist, det_hist>>

\* scrape_fights_for_event returned.
AllGotFights ==
    /\ apc = "fights" /\ gpc = "done"
    /\ fights' = g_fights
    /\ f_i' = 1
    /\ ev_hist' = Append(ev_hist, [event_url |-> g_event_url,
                                   fetched |-> g_doc # NoSoup,
                                   refs |-> g_fights])
    /\ FightsReset
    /\ apc' = "fight_loop"
    /\ UNCHANGED <<site, fetchVars, eventVars, detailVars, a_max_pages,
                   event_urls, e_i, all_fights, files, writes, det_hist>>

\* for fight in fights: details = scrape_fight_details(fight["fight_url"])
AllNextFight ==
    /\ apc = "fight_loop" /\ f_i <= Len(fights)
    /\ DetailsStart(fights[f_i].fight_url)
    /\ apc' = "details"
    /\ UNCHANGED <<site, fetchVars, eventVars, fightsVars, a_max_pages,
                   event_urls, e_i, fights, f_i, all_fights, files, writes,
                   ev_hist, det_hist>>

\* scrape_fight_details returned: merge and append.
AllGotDetails ==
    /\ apc = "details" /\ dpc = "done"
    /\ all_fights' = Append(all_fights, Merged(event_urls[e_i], fights[f_i], result))
    /\ det_hist' = Append(det_hist, [fight_url |-> d_url,
                                     fetched |-> d_doc # NoSoup,
                                     details |-> result])
    /\ f_i' = f_i + 1
    /\ DetailsReset
    /\ apc' = "fight_loop"
    /\ UNCHANGED <<site, fetchVars, eventVars, fightsVars, a_max_pages,
                   event_urls, e_i, fights, files, writes, ev_hist>>

\* The fights of the event are done: sleep, next event.
AllEventDone ==
    /\ apc = "fight_loop" /\ ~(f_i <= Len(fights))
    /\ e_i' = e_i + 1
    /\ apc' = "event_loop"
    /\ UNCHANGED <<site, fetchVars, eventVars, detailVars, fightsVars,
                   a_max_pages, event_urls, fights, f_i, all_fights, files,
                   writes, ev_hist, det_hist>>

\* The return left out: the empty table is written.
AllNoFights_WritesEmpty ==
    /\ apc = "event_loop" /\ ~(e_i <= Len(event_urls))
    /\ all_fights = <<>>
    /\ files' = [files EXCEPT !.fights = File(all_fights)]
    /\ writes' = writes + 1
    /\ apc' = "done"
    /\ UNCHANGED <<site, fetchVars, eventVars, detailVars, fightsVars,
                   a_max_pages, event_urls, e_i, fights, f_i, all_fights,
                   ev_hist, det_hist>>

\* if not all_fights: print("No fights scraped."); return
AllNoFights ==
    /\ apc = "event_loop" /\ ~(e_i <= Len(event_urls))
    /\ all_fights = <<>>
    /\ apc' = "done"
    /\ UNCHANGED <<site, fetchVars, eventVars, detailVars, fightsVars,
                   a_max_pages, event_urls, e_i, fights, f_i, all_fights,
                   files, writes, ev_hist, det_hist>>

\* pd.DataFrame(all_fights).to_csv(DATA_DIR / "ufc_fights_raw.csv")
AllSave ==
    /\ apc = "event_loop" /\ ~(e_i <= Len(event_urls))
    /\ all_fights # <<>>
    /\ files' = [files EXCEPT !.fights = File(all_fights)]
    /\ writes' = writes + 1
    /\ apc' = "done"
    /\ UNCHANGED <<site, fetchVars, eventVars, detailVars, fightsVars,
                   a_max_pages, event_urls, e_i, fights, f_i, all_fights,
                   ev_hist, det_hist>>

(***************************************************************************)
(* extract_fighter_urls_from_fight.  Of a fight page it reads the blocks   *)
(* of class b-fight-details__person and, in the first two, the first       *)
(* anchor of class b-link.                                                 *)
(***************************************************************************)
\* The dict returned when the page cannot be fetched.
NullInfo(fight_url) ==
    [fight_url |-> fight_url,
     red_fighter_name |-> None, red_fighter_url |-> NoneSeq,
     blue_fighter_name |-> None, blue_fighter_url |-> NoneSeq]

\* name_tag.get_text(strip=True) and name_tag.get("href") if the block has
\* the anchor, else None and None.
NameOf(block) == IF block.link.present THEN block.link.name ELSE None
HrefOf(block) == IF block.link.present THEN block.link.href ELSE NoneSeq

FighterInfo(fight_url, doc) ==
    IF Len(doc.persons) >= 2
    THEN [fight_url |-> fight_url,
          red_fighter_name |-> NameOf(doc.persons[1]),
          red_fighter_url |-> HrefOf(doc.persons[1]),
          blue_fighter_name |-> NameOf(doc.persons[2]),
          blue_fighter_url |-> HrefOf(doc.persons[2])]
    ELSE NullInfo(fight_url)

ExtractIdle ==
    /\ x_url = NoneSeq /\ xpc = "idle" /\ info = NullInfo(NoneSeq) /\ x_doc = NoSoup

\* The caller has taken the dict.
ExtractReset ==
    /\ x_url' = NoneSeq /\ xpc' = "idle" /\ info' = NullInfo(NoneSeq) /\ x_doc' = NoSoup

\* Entry of extract_fighter_urls_from_fight(u).
ExtractStart(u) ==
    /\ x_url' = u /\ xpc' = "call" /\ info' = NullInfo(NoneSeq) /\ x_doc' = NoSoup

\* soup = fetch_page(fight_url)
ExtractFetch ==
    /\ xpc = "call"
    /\ FetchStart(x_url, DefaultRetries)
    /\ xpc' = "fetching"
    /\ UNCHANGED <<site, x_url, info, x_doc>>

\* except Exception: return the dict of Nones
ExtractFetchError ==
    /\ xpc = "fetching" /\ fstatus = "raised"
    /\ FetchReset
    /\ info' = NullInfo(x_url)
    /\ xpc' = "done"
    /\ UNCHANGED <<site, x_url, x_doc>>

\* The page came: read the two corners off it.
ExtractRead ==
    /\ xpc = "fetching" /\ fstatus = "returned"
    /\ info' = FighterInfo(x_url, soup)
    /\ x_doc' = soup
    /\ FetchReset
    /\ xpc' = "done"
    /\ UNCHANGED <<site, x_url>>

(***************************************************************************)
(* build_fighter_index_from_fights.  Of ufc_fights_raw.csv only the        *)
(* fight_url column is read; an empty field of it is read back as NaN.     *)
(***************************************************************************)
\* fights_df["fight_url"].dropna().unique(): first occurrences, in order.
RECURSIVE DropNaUnique(_, _)
DropNaUnique(rows, acc) ==
    IF rows = <<>> THEN acc
    ELSE LET u == Head(rows).fight_url
         IN  DropNaUnique(Tail(rows),
                          IF u = NoneSeq \/ \E i \in 1..Len(acc) : acc[i] = u
                          THEN acc ELSE Append(acc, u))

\* The rows one fight adds: the red corner's, then the blue corner's.
CornerRows(name, u) ==
    IF Falsy(u) THEN <<>> ELSE <<[fighter_name |-> name, fighter_url |-> u]>>

RowsOf(i) ==
    CornerRows(i.red_fighter_name, i.red_fighter_url)
      \o CornerRows(i.blue_fighter_name, i.blue_fighter_url)

\* dropna(subset=["fighter_url"])
RECURSIVE DropNa(_)
DropNa(rows) ==
    IF rows = <<>> THEN <<>>
    ELSE IF Head(rows).fighter_url = NoneSeq THEN DropNa(Tail(rows))
    ELSE <<Head(rows)>> \o DropNa(Tail(rows))

\* drop_duplicates("fighter_url", keep="last")
RECURSIVE drop_duplicates_KeepLast(_)
drop_duplicates_KeepLast(rows) ==
    IF rows = <<>> THEN <<>>
    ELSE IF \E i \in 2..Len(rows) : rows[i].fighter_url = Head(rows).fighter_url
         THEN drop_duplicates_KeepLast(Tail(rows))
         ELSE <<Head(rows)>> \o drop_duplicates_KeepLast(Tail(rows))

\* drop_duplicates("fighter_url"): of equal URLs the first row stays.
RECURSIVE drop_duplicates(_)
drop_duplicates(rows) ==
    IF rows = <<>> THEN <<>>
    ELSE LET front == SubSeq(rows, 1, Len(rows) - 1)
             last == rows[Len(rows)]
         IN  IF \E i \in 1..Len(front) : front[i].fighter_url = last.fighter_url
             THEN drop_duplicates(front)
             ELSE Append(drop_duplicates(front), last)

IndexIdle ==
    /\ ipc = "idle" /\ unique_fight_urls = <<>> /\ u_i = 0
    /\ fighter_rows = <<>> /\ idx_hist = <<>>

\* if not fights_csv.exists(): return
IndexNoFile ==
    /\ ipc = "start" /\ ~files.fights.exists
    /\ ipc' = "done"
    /\ UNCHANGED <<site, fetchVars, extractVars, unique_fight_urls, u_i,
                   fighter_rows, idx_hist>>

\* pd.read_csv(fights_csv); the unique fight URLs; fighter_rows = []
IndexLoad ==
    /\ ipc = "start" /\ files.fights.exists
    /\ unique_fight_urls' = DropNaUnique(files.fights.rows, <<>>)
    /\ u_i' = 1
    /\ fighter_rows' = <<>>
    /\ ipc' = "loop"
    /\ UNCHANGED <<site, fetchVars, extractVars, idx_hist>>

\* for fight_url in unique_fight_urls: the call of
\* extract_fighter_urls_from_fight
IndexNextFight ==
    /\ ipc = "loop" /\ u_i <= Len(unique_fight_urls)
    /\ ExtractStart(unique_fight_urls[u_i])
    /\ ipc' = "extract"
    /\ UNCHANGED <<site, fetchVars, unique_fight_urls, u_i, fighter_rows, idx_hist>>

\* ... and its return: a row for each corner whose URL is truthy
IndexGotInfo ==
    /\ ipc = "extract" /\ xpc = "done"
    /\ fighter_rows' = fighter_rows \o RowsOf(info)
    /\ idx_hist' = Append(idx_hist, [fight_url |-> x_url, doc |-> x_doc])
    /\ u_i' = u_i + 1
    /\ ExtractReset
    /\ ipc' = "loop"
    /\ UNCHANGED <<site, fetchVars, unique_fight_urls>>

\* if not fighter_rows: return
IndexNoRows ==
    /\ ipc = "loop" /\ u_i > Len(unique_fight_urls)
    /\ fighter_rows = <<>>
    /\ ipc' = "done"
    /\ UNCHANGED <<site, fetchVars, extractVars, unique_fight_urls, u_i,
                   fighter_rows, idx_hist>>

\* dropna, drop_duplicates, to_csv(fighters_index.csv)
IndexSave ==
    /\ ipc = "loop" /\ u_i > Len(unique_fight_urls)
    /\ fighter_rows # <<>>
    /\ files' = [files EXCEPT !.fighters = File(drop_duplicates(DropNa(fighter_rows)))]
    /\ writes' = writes + 1
    /\ ipc' = "done"
    /\ UNCHANGED <<site, fetchVars, extractVars, unique_fight_urls, u_i,
                   fighter_rows, idx_hist>>
    /\ UNCHANGED <<a_max_pages, apc, event_urls, e_i, fights, f_i, all_fights,
                   ev_hist, det_hist>>

(***************************************************************************)
(* One call of a text normalizer.                                         *)
(***************************************************************************)
NormIdle ==
    /\ n_fun = None /\ n_arg = PyNone /\ n_res = PyNone /\ npc = "idle"

Normalizers == {"parse_american_odds", "parse_made_of", "parse_height_to_inches",
                "parse_reach_to_inches", "parse_float_stat"}

Call(f) ==
    /\ npc = "call" /\ n_fun = f
    /\ npc' = "done"
    /\ UNCHANGED <<site, fetchVars, n_fun, n_arg>>

CallParseAmericanOdds ==
    Call("parse_american_odds") /\ n_res' = parse_american_odds(n_arg)

CallParseMadeOf ==
    Call("parse_made_of") /\ n_res' = parse_made_of(n_arg)

CallParseHeight ==
    Call("parse_height_to_inches") /\ n_res' = parse_height_to_inches(n_arg)

CallParseReach ==
    Call("parse_reach_to_inches") /\ n_res' = parse_reach_to_inches(n_arg)

CallParseFloatStat ==
    Call("parse_float_stat") /\ n_res' = parse_float_stat(n_arg)

(***************************************************************************)
(* Specification of one call fetch_page(url, retries).                     *)
(***************************************************************************)
InitFetch ==
    /\ site = [NoSite EXCEPT !.listing = [u \in ListingURLs |-> "listings"]]
    /\ url \in ListingURLs /\ retries \in 0..MaxRetries
    /\ attempt = 1 /\ last_err = None
    /\ fstatus = "running" /\ soup = NoSoup /\ raised = None
    /\ log = <<>> /\ slept = 0 /\ n_ok = 0
    /\ EventsIdle /\ DetailsIdle /\ FightsIdle /\ AllIdle /\ NormIdle
    /\ ExtractIdle /\ IndexIdle

NextFetch ==
    \/ (RequestSucceeds /\ UNCHANGED <<eventVars, detailVars, fightsVars, allVars, normVars, extractVars, indexVars>>)
    \/ (RequestFails /\ UNCHANGED <<eventVars, detailVars, fightsVars, allVars, normVars, extractVars, indexVars>>)
    \/ (RaiseExhausted /\ UNCHANGED <<eventVars, detailVars, fightsVars, allVars, normVars, extractVars, indexVars>>)

SpecFetch == InitFetch /\ [][NextFetch]_vars

(***************************************************************************)
(* Specification of one call scrape_event_urls(max_pages); the site may    *)
(* serve a different listing at every fetch.                               *)
(***************************************************************************)
InitEvents ==
    /\ site = [NoSite EXCEPT !.listing = [u \in ListingURLs |-> "listings"]]
    /\ FetchIdle
    /\ max_pages \in 0..MaxPages
    /\ page = 0 /\ all_event_urls = <<>> /\ seen = {}
    /\ page_event_urls = <<>> /\ anchors = <<>> /\ epc = "loop" /\ hist = <<>>
    /\ DetailsIdle /\ FightsIdle /\ AllIdle /\ NormIdle
    /\ ExtractIdle /\ IndexIdle

NextEvents ==
    \/ (RequestSucceeds /\ UNCHANGED <<eventVars, detailVars, fightsVars, allVars, normVars, extractVars, indexVars>>)
    \/ (RequestFails /\ UNCHANGED <<eventVars, detailVars, fightsVars, allVars, normVars, extractVars, indexVars>>)
    \/ (RaiseExhausted /\ UNCHANGED <<eventVars, detailVars, fightsVars, allVars, normVars, extractVars, indexVars>>)
    \/ (EventsFetchPage /\ UNCHANGED <<detailVars, fightsVars, allVars, normVars, extractVars, indexVars>>)
    \/ (EventsLoopEnd /\ UNCHANGED <<detailVars, fightsVars, allVars, normVars, extractVars, indexVars>>)
    \/ (EventsFetchError /\ UNCHANGED <<detailVars, fightsVars, allVars, normVars, extractVars, indexVars>>)
    \/ (EventsGotPage /\ UNCHANGED <<detailVars, fightsVars, allVars, normVars, extractVars, indexVars>>)
    \/ (EventsScanLink /\ UNCHANGED <<detailVars, fightsVars, allVars, normVars, extractVars, indexVars>>)
    \/ (EventsPageEmpty /\ UNCHANGED <<detailVars, fightsVars, allVars, normVars, extractVars, indexVars>>)
    \/ (EventsNextPage /\ UNCHANGED <<detailVars, fightsVars, allVars, normVars, extractVars, indexVars>>)

SpecEvents == InitEvents /\ [][NextEvents]_vars

\* The listing pages of a site that does not change.
StableDocs ==
    {[kind |-> "listing", anchors |-> a] :
       a \in SeqsUpTo({hAbs1, hRel2, hFighter}, MaxLinks)}

\* One call scrape_event_urls(max_pages), of up to MaxPages + 2 pages, on a
\* site whose two listing URLs show the same page at every fetch of the run.
InitStable ==
    /\ \E d0 \in StableDocs, d1 \in StableDocs :
         site = [NoSite EXCEPT !.fixed = [u \in ListingURLs |->
                                           IF u = EVENTS_COMPLETED_URL THEN d0 ELSE d1]]
    /\ FetchIdle
    /\ max_pages \in 0..(MaxPages + 2)
    /\ page = 0 /\ all_event_urls = <<>> /\ seen = {}
    /\ page_event_urls = <<>> /\ anchors = <<>> /\ epc = "loop" /\ hist = <<>>
    /\ DetailsIdle /\ FightsIdle /\ AllIdle /\ NormIdle
    /\ ExtractIdle /\ IndexIdle

SpecStable == InitStable /\ [][NextEvents]_vars

\* The loop always takes its next step and every GET ends (timeout=20).
FairSpecEvents == SpecEvents /\ WF_vars(NextEvents)

(***************************************************************************)
(* Specification of one call scrape_fight_details(fight_url).              *)
(***************************************************************************)
InitDetails ==
    /\ site = [NoSite EXCEPT !.fight = "details"]
    /\ FetchIdle /\ EventsIdle /\ FightsIdle /\ AllIdle /\ NormIdle
    /\ d_url \in {FightUrl("1"), FightUrl("2")}
    /\ dpc = "call" /\ result = <<>> /\ d_doc = NoSoup
    /\ ExtractIdle /\ IndexIdle

NextDetails ==
    \/ (RequestSucceeds /\ UNCHANGED <<eventVars, detailVars, fightsVars, allVars, normVars, extractVars, indexVars>>)
    \/ (RequestFails /\ UNCHANGED <<eventVars, detailVars, fightsVars, allVars, normVars, extractVars, indexVars>>)
    \/ (RaiseExhausted /\ UNCHANGED <<eventVars, detailVars, fightsVars, allVars, normVars, extractVars, indexVars>>)
    \/ (DetailsFetch /\ UNCHANGED <<eventVars, fightsVars, allVars, normVars, extractVars, indexVars>>)
    \/ (DetailsFetchError /\ UNCHANGED <<eventVars, fightsVars, allVars, normVars, extractVars, indexVars>>)
    \/ (DetailsExtract /\ UNCHANGED <<eventVars, fightsVars, allVars, normVars, extractVars, indexVars>>)

SpecDetails == InitDetails /\ [][NextDetails]_vars

(***************************************************************************)
(* Specification of one call scrape_fights_for_event(event_url).           *)
(***************************************************************************)
InitFights ==
    /\ site = [NoSite EXCEPT !.event = "rows"]
    /\ FetchIdle /\ EventsIdle /\ DetailsIdle /\ AllIdle /\ NormIdle
    /\ ExtractIdle /\ IndexIdle
    /\ g_event_url \in {hAbs1, EventUrlOf(hRel2)}
    /\ gpc = "call" /\ g_fights = <<>> /\ g_doc = NoSoup

NextFights ==
    \/ (RequestSucceeds /\ UNCHANGED <<eventVars, detailVars, fightsVars, allVars, normVars, extractVars, indexVars>>)
    \/ (RequestFails /\ UNCHANGED <<eventVars, detailVars, fightsVars, allVars, normVars, extractVars, indexVars>>)
    \/ (RaiseExhausted /\ UNCHANGED <<eventVars, detailVars, fightsVars, allVars, normVars, extractVars, indexVars>>)
    \/ (FightsFetch /\ UNCHANGED <<eventVars, detailVars, allVars, normVars, extractVars, indexVars>>)
    \/ (FightsFetchError /\ UNCHANGED <<eventVars, detailVars, allVars, normVars, extractVars, indexVars>>)
    \/ (FightsExtract /\ UNCHANGED <<eventVars, detailVars, allVars, normVars, extractVars, indexVars>>)

SpecFights == InitFights /\ [][NextFights]_vars

(***************************************************************************)
(* Specification of one run scrape_all(max_pages): the default listing     *)
(* shows one event, the ?page=all listing that event and one more.         *)
(***************************************************************************)
OldFights == File(<<[fight_url |-> FightUrl("0")]>>)

InitAll ==
    /\ site = [listing |-> [u \in ListingURLs |->
                              IF u = EVENTS_COMPLETED_URL THEN "latest" ELSE "all"],
               event |-> "events", fight |-> "fights",
               fixed |-> [u \in ListingURLs |-> NoSoup]]
    /\ FetchIdle /\ EventsIdle /\ DetailsIdle /\ FightsIdle /\ NormIdle
    /\ a_max_pages \in 0..MaxPages
    /\ apc = "start" /\ event_urls = <<>> /\ e_i = 0
    /\ fights = <<>> /\ f_i = 0 /\ all_fights = <<>>
    /\ files \in {[fights |-> f, fighters |-> NoFile] : f \in {NoFile, OldFights}}
    /\ writes = 0 /\ ev_hist = <<>> /\ det_hist = <<>>
    /\ ExtractIdle /\ IndexIdle

NextAll ==
    \/ (RequestSucceeds /\ UNCHANGED <<eventVars, detailVars, fightsVars, allVars, normVars, extractVars, indexVars>>)
    \/ (RequestFails /\ UNCHANGED <<eventVars, detailVars, fightsVars, allVars, normVars, extractVars, indexVars>>)
    \/ (RaiseExhausted /\ UNCHANGED <<eventVars, detailVars, fightsVars, allVars, normVars, extractVars, indexVars>>)
    \/ (EventsFetchPage /\ UNCHANGED <<detailVars, fightsVars, allVars, normVars, extractVars, indexVars>>)
    \/ (EventsLoopEnd /\ UNCHANGED <<detailVars, fightsVars, allVars, normVars, extractVars, indexVars>>)
    \/ (EventsFetchError /\ UNCHANGED <<detailVars, fightsVars, allVars, normVars, extractVars, indexVars>>)
    \/ (EventsGotPage /\ UNCHANGED <<detailVars, fightsVars, allVars, normVars, extractVars, indexVars>>)
    \/ (EventsScanLink /\ UNCHANGED <<detailVars, fightsVars, allVars, normVars, extractVars, indexVars>>)
    \/ (EventsPageEmpty /\ UNCHANGED <<detailVars, fightsVars, allVars, normVars, extractVars, indexVars>>)
    \/ (EventsNextPage /\ UNCHANGED <<detailVars, fightsVars, allVars, normVars, extractVars, indexVars>>)
    \/ (FightsFetch /\ UNCHANGED <<eventVars, detailVars, allVars, normVars, extractVars, indexVars>>)
    \/ (FightsFetchError /\ UNCHANGED <<eventVars, detailVars, allVars, normVars, extractVars, indexVars>>)
    \/ (FightsExtract /\ UNCHANGED <<eventVars, detailVars, allVars, normVars, extractVars, indexVars>>)
    \/ (DetailsFetch /\ UNCHANGED <<eventVars, fightsVars, allVars, normVars, extractVars, indexVars>>)
    \/ (DetailsFetchError /\ UNCHANGED <<eventVars, fightsVars, allVars, normVars, extractVars, indexVars>>)
    \/ (DetailsExtract /\ UNCHANGED <<eventVars, fightsVars, allVars, normVars, extractVars, indexVars>>)
    \/ (AllCallEvents /\ UNCHANGED <<detailVars, fightsVars, normVars, extractVars, indexVars>>)
    \/ (AllGotEvents /\ UNCHANGED <<detailVars, fightsVars, normVars, extractVars, indexVars>>)
    \/ (AllNextEvent /\ UNCHANGED <<detailVars, normVars, extractVars, indexVars>>)
    \/ (AllGotFights /\ UNCHANGED <<normVars, extractVars, indexVars>>)
    \/ (AllNextFight /\ UNCHANGED <<normVars, extractVars, indexVars>>)
    \/ (AllGotDetails /\ UNCHANGED <<normVars, extractVars, indexVars>>)
    \/ (AllEventDone /\ UNCHANGED <<normVars, extractVars, indexVars>>)
    \/ (AllNoFights /\ UNCHANGED <<normVars, extractVars, indexVars>>)
    \/ (AllSave /\ UNCHANGED <<normVars, extractVars, indexVars>>)

SpecAll == InitAll /\ [][NextAll]_vars

(***************************************************************************)
(* Specification of one call build_fighter_index_from_fights(): the file   *)
(* of fights is missing or holds up to MaxFights rows, naming two fights;  *)
(* the site may serve any fight page at every fetch.                       *)
(***************************************************************************)
FightsColumn == {[fight_url |-> u] : u \in {FightUrl("1"), FightUrl("2"), NoneSeq}}

InitIndex ==
    /\ site = [NoSite EXCEPT !.fight = "index"]
    /\ FetchIdle /\ EventsIdle /\ DetailsIdle /\ FightsIdle /\ NormIdle
    /\ ExtractIdle
    /\ a_max_pages = 0 /\ apc = "idle" /\ event_urls = <<>> /\ e_i = 0
    /\ fights = <<>> /\ f_i = 0 /\ all_fights = <<>>
    /\ writes = 0 /\ ev_hist = <<>> /\ det_hist = <<>>
    /\ files \in {[fights |-> f, fighters |-> NoFile] :
                     f \in {NoFile} \cup {File(rows) : rows \in SeqsUpTo(FightsColumn, MaxFights)}}
    /\ ipc = "start" /\ unique_fight_urls = <<>> /\ u_i = 0
    /\ fighter_rows = <<>> /\ idx_hist = <<>>

NextIndex ==
    \/ (RequestSucceeds /\ UNCHANGED <<eventVars, detailVars, fightsVars, allVars, normVars, extractVars, indexVars>>)
    \/ (RequestFails /\ UNCHANGED <<eventVars, detailVars, fightsVars, allVars, normVars, extractVars, indexVars>>)
    \/ (RaiseExhausted /\ UNCHANGED <<eventVars, detailVars, fightsVars, allVars, normVars, extractVars, indexVars>>)
    \/ (ExtractFetch /\ UNCHANGED <<eventVars, detailVars, fightsVars, allVars, normVars, indexVars>>)
    \/ (ExtractFetchError /\ UNCHANGED <<eventVars, detailVars, fightsVars, allVars, normVars, indexVars>>)
    \/ (ExtractRead /\ UNCHANGED <<eventVars, detailVars, fightsVars, allVars, normVars, indexVars>>)
    \/ (IndexNoFile /\ UNCHANGED <<eventVars, detailVars, fightsVars, allVars, normVars>>)
    \/ (IndexLoad /\ UNCHANGED <<eventVars, detailVars, fightsVars, allVars, normVars>>)
    \/ (IndexNextFight /\ UNCHANGED <<eventVars, detailVars, fightsVars, allVars, normVars>>)
    \/ (IndexGotInfo /\ UNCHANGED <<eventVars, detailVars, fightsVars, allVars, normVars>>)
    \/ (IndexNoRows /\ UNCHANGED <<eventVars, detailVars, fightsVars, allVars, normVars>>)
    \/ (IndexSave /\ UNCHANGED <<eventVars, detailVars, fightsVars, normVars>>)

SpecIndex == InitIndex /\ [][NextIndex]_vars

(***************************************************************************)
(* Specification of one run of either stage over the files of an earlier   *)
(* run: scrape_all(max_pages) as above, or                                 *)
(* build_fighter_index_from_fights() with an index already written.        *)
(***************************************************************************)
OldFighters == File(<<[fighter_name |-> "Old Name", fighter_url |-> hJones]>>)

InitRerun ==
    /\ site = [NoSite EXCEPT !.fight = "index"]
    /\ FetchIdle /\ EventsIdle /\ DetailsIdle /\ FightsIdle /\ NormIdle
    /\ ExtractIdle
    /\ a_max_pages = 0 /\ apc = "idle" /\ event_urls = <<>> /\ e_i = 0
    /\ fights = <<>> /\ f_i = 0 /\ all_fights = <<>>
    /\ writes = 0 /\ ev_hist = <<>> /\ det_hist = <<>>
    /\ files \in {[fights |-> f, fighters |-> OldFighters] :
                     f \in {NoFile} \cup {File(rows) : rows \in SeqsUpTo(FightsColumn, MaxFights)}}
    /\ ipc = "start" /\ unique_fight_urls = <<>> /\ u_i = 0
    /\ fighter_rows = <<>> /\ idx_hist = <<>>

InitStages == InitAll \/ InitRerun

NextStages ==
    \/ NextAll
    \/ (ExtractFetch /\ UNCHANGED <<eventVars, detailVars, fightsVars, allVars, normVars, indexVars>>)
    \/ (ExtractFetchError /\ UNCHANGED <<eventVars, detailVars, fightsVars, allVars, normVars, indexVars>>)
    \/ (ExtractRead /\ UNCHANGED <<eventVars, detailVars, fightsVars, allVars, normVars, indexVars>>)
    \/ (IndexNoFile /\ UNCHANGED <<eventVars, detailVars, fightsVars, allVars, normVars>>)
    \/ (IndexLoad /\ UNCHANGED <<eventVars, detailVars, fightsVars, allVars, normVars>>)
    \/ (IndexNextFight /\ UNCHANGED <<eventVars, detailVars, fightsVars, allVars, normVars>>)
    \/ (IndexGotInfo /\ UNCHANGED <<eventVars, detailVars, fightsVars, allVars, normVars>>)
    \/ (IndexNoRows /\ UNCHANGED <<eventVars, detailVars, fightsVars, allVars, normVars>>)
    \/ (IndexSave /\ UNCHANGED <<eventVars, detailVars, fightsVars, normVars>>)

SpecStages == InitStages /\ [][NextStages]_vars

(***************************************************************************)
(* Specification of one call of one normalizer on one argument: None, a    *)
(* number, or a text of at most MaxText characters.                        *)
(***************************************************************************)
Alphabet(f) ==
    CASE f = "parse_american_odds" -> {"+", "-", "1", "5", " ", "E"}
      [] f = "parse_made_of" -> {"2", "4", " ", "o", "f", "-"}
      [] f = "parse_height_to_inches" -> {"5", "1", "'", "\"", " ", "-"}
      [] f = "parse_reach_to_inches" -> {"7", "2", ".", "\"", " ", "-"}
      [] f = "parse_float_stat" -> {"5", "2", ".", "%", " ", "-"}

NonText == {PyNone, PyInt(0), PyInt(20), PyFloat(0, 1), PyFloat(5, 10)}

Arguments(f) == NonText \cup {PyStr(x) : x \in SeqsUpTo(Alphabet(f), MaxText)}

InitNorm ==
    /\ site = NoSite
    /\ FetchIdle /\ EventsIdle /\ DetailsIdle /\ FightsIdle /\ AllIdle
    /\ n_fun \in Normalizers
    /\ n_arg \in Arguments(n_fun)
    /\ n_res = PyNone /\ npc = "call"
    /\ ExtractIdle /\ IndexIdle

NextNorm ==
    \/ (CallParseAmericanOdds /\ UNCHANGED <<eventVars, detailVars, fightsVars, allVars, extractVars, indexVars>>)
    \/ (CallParseMadeOf /\ UNCHANGED <<eventVars, detailVars, fightsVars, allVars, extractVars, indexVars>>)
    \/ (CallParseHeight /\ UNCHANGED <<eventVars, detailVars, fightsVars, allVars, extractVars, indexVars>>)
    \/ (CallParseReach /\ UNCHANGED <<eventVars, detailVars, fightsVars, allVars, extractVars, indexVars>>)
    \/ (CallParseFloatStat /\ UNCHANGED <<eventVars, detailVars, fightsVars, allVars, extractVars, indexVars>>)

SpecNorm == InitNorm /\ [][NextNorm]_vars

(***************************************************************************)
(* Helpers of the properties.                                              *)
(***************************************************************************)
Range(l) == {l[i] : i \in 1..Len(l)}
NoDup(l) == \A i, j \in 1..Len(l) : i # j => l[i] # l[j]
IsPrefix(a, b) == Len(a) <= Len(b) /\ SubSeq(b, 1, Len(a)) = a
Failures(l) == {i \in 1..Len(l) : l[i] \in Errs}

\* An absolute URL begins with a scheme and "://".
IsAbsolute(u) == Len(u) >= 3 /\ u[1] = "http" /\ u[2] = "://"

\* The event URLs the pages of the iterations 1..n had to add, in order.
RECURSIVE FreshUpTo(_, _)
FreshUpTo(h, n) ==
    IF n = 0 THEN <<>> ELSE FreshUpTo(h, n - 1) \o h[n].fresh

(***************************************************************************)
(* C1: fetch_page makes at most `retries` GETs, sleeps once after every    *)
(* failed GET, stops at the first GET that succeeds and returns its page;  *)
(* it raises only after `retries` failed GETs, and the error it raises     *)
(* carries the error of the last GET.                                      *)
(***************************************************************************)
C1_FetchRetries ==
    fstatus # "idle" =>
      /\ Len(log) <= retries
      /\ \A i \in 1..(Len(log) - 1) : log[i] \in Errs
      /\ slept = Cardinality(Failures(log))
      /\ (fstatus = "returned") <=> (log # <<>> /\ log[Len(log)] = "ok")
      /\ fstatus = "returned" => soup \in Served(url)
      /\ fstatus = "running" => attempt = Len(log) + 1
      /\ fstatus = "raised" =>
           /\ Len(log) = retries
           /\ Failures(log) = 1..retries
           /\ retries > 0 => raised = log[retries]

\* All three attempts failed, the first and the last with different errors.
C1_Witness ==
    /\ fstatus = "raised" /\ retries = 3
    /\ log[1] # log[3] /\ raised = log[3]

(***************************************************************************)
(* C2: scrape_event_urls always returns; every iteration before the last   *)
(* one begun gave new links; it returns after max_pages such iterations,   *)
(* or right after a page that gave no new link, or right after a fetch     *)
(* error, and then with the URLs collected so far.                         *)
(***************************************************************************)
StopsAtFirst ==
    /\ epc \in {"loop", "fetching", "scan", "returned"}
    /\ Len(hist) <= max_pages
    /\ \A i \in 1..(Len(hist) - 1) : hist[i].out = "new"
    /\ epc = "returned" =>
         \/ /\ Len(hist) = max_pages /\ page = max_pages
            /\ \A i \in 1..Len(hist) : hist[i].out = "new"
         \/ /\ hist # <<>> /\ hist[Len(hist)].out \in {"empty", "error"}
            /\ page = Len(hist) - 1
    /\ (epc = "returned" /\ hist # <<>> /\ hist[Len(hist)].out = "error") =>
         all_event_urls = FreshUpTo(hist, Len(hist) - 1)

C2_Terminates == []StopsAtFirst /\ <>(epc = "returned")

\* Returned on a fetch error at the second page with the first page's URLs.
C2_Witness ==
    /\ epc = "returned" /\ Len(hist) = 2 /\ hist[2].out = "error"
    /\ all_event_urls # <<>> /\ max_pages = 3

(***************************************************************************)
(* C3: max_pages = 3 and the third page (index 2) has no new link.         *)
(***************************************************************************)
PageTwoEmpty ==
    /\ max_pages = 3 /\ epc = "returned"
    /\ Len(hist) = 3 /\ hist[3].out # "error" /\ hist[3].fresh = <<>>

\* C3 as stated: the result holds the links of pages 0 and 1 only and the
\* function returns after 2 successful page fetches.
C3_Original ==
    PageTwoEmpty => /\ all_event_urls = hist[1].fresh \o hist[2].fresh
                    /\ n_ok = 2

\* C3 as amended: the result holds the links of pages 0 and 1 only and the
\* function returns after 3 successful page fetches, the page of index 2
\* being fetched to find that it has no new link.
C3_ThreeFetches ==
    PageTwoEmpty => /\ all_event_urls = hist[1].fresh \o hist[2].fresh
                    /\ n_ok = 3

\* Page 2 repeats a link of an earlier page.
C3_Witness ==
    /\ PageTwoEmpty /\ Len(all_event_urls) >= 2 /\ n_ok = 3

(***************************************************************************)
(* C4: at every point of a run the result list has no URL twice, holds     *)
(* exactly the members of seen, in discovery order (first occurrence),     *)
(* and each element is an absolute URL containing the event marker.        *)
(***************************************************************************)
DiscoveryOrder ==
    IF hist # <<>> /\ hist[Len(hist)].out = "scan"
    THEN /\ all_event_urls = FreshUpTo(hist, Len(hist) - 1) \o page_event_urls
         /\ IsPrefix(page_event_urls, hist[Len(hist)].fresh)
         /\ anchors = <<>> => page_event_urls = hist[Len(hist)].fresh
    ELSE all_event_urls = FreshUpTo(hist, Len(hist))

\* The part of C4 that holds of the code.
EventListInv ==
    /\ NoDup(all_event_urls)
    /\ Range(all_event_urls) = seen
    /\ DiscoveryOrder
    /\ \A u \in seen : Contains(u, EventMarker) /\ StartsWithHttp(u)

C4_Original ==
    /\ NoDup(all_event_urls)
    /\ Range(all_event_urls) = seen
    /\ DiscoveryOrder
    /\ \A u \in seen : Contains(u, EventMarker) /\ IsAbsolute(u)

(***************************************************************************)
(* C5: a fetch that fails for good never ends scrape_all.  A failing       *)
(* event page gives no fights and a failing fight page no details, the     *)
(* loops go on, and the fights of every event, each with the details       *)
(* fetched for it, are the rows written.  A failing listing page ends the  *)
(* discovery of events, not the run: the events found before it are        *)
(* visited.                                                                *)
(***************************************************************************)
\* The FightRefs found on the events 1..n visited, in order.
RECURSIVE RefsUpTo(_, _)
RefsUpTo(h, n) == IF n = 0 THEN <<>> ELSE RefsUpTo(h, n - 1) \o h[n].refs

AllRefs == RefsUpTo(ev_hist, Len(ev_hist))

NeverAborts ==
    /\ apc # "raised" /\ epc # "raised" /\ gpc # "raised" /\ dpc # "raised"

UnitsSkipped ==
    apc = "done" =>
      /\ event_urls = all_event_urls
      /\ (hist # <<>> /\ hist[Len(hist)].out = "error") =>
           event_urls = FreshUpTo(hist, Len(hist) - 1)
      /\ Len(ev_hist) = Len(event_urls)
      /\ \A i \in 1..Len(ev_hist) :
           /\ ev_hist[i].event_url = event_urls[i]
           /\ ~ev_hist[i].fetched => ev_hist[i].refs = <<>>
      /\ Len(det_hist) = Len(AllRefs) /\ Len(all_fights) = Len(AllRefs)
      /\ \A j \in 1..Len(AllRefs) :
           /\ det_hist[j].fight_url = AllRefs[j].fight_url
           /\ ~det_hist[j].fetched =>
                det_hist[j].details = <<>> /\ all_fights[j] = AllRefs[j]
           /\ \A k \in DOMAIN AllRefs[j] : all_fights[j][k] = AllRefs[j][k]
           /\ \A k \in DOMAIN det_hist[j].details :
                all_fights[j][k] = det_hist[j].details[k]
      /\ all_fights # <<>> => files.fights = File(all_fights)

C5_RunGoesOn == NeverAborts /\ UnitsSkipped

\* After a failing listing page the listing loop goes on with the next page.
ListingLoopGoesOn ==
    apc = "done" =>
      \A i \in 1..Len(hist) :
        (hist[i].out = "error" /\ hist[i].page + 1 < a_max_pages) => Len(hist) > i

\* C5 as stated: the loop continues with the next unit after a failing
\* listing page too.
C5_Original == NeverAborts /\ UnitsSkipped /\ ListingLoopGoesOn

\* The first event page failed, the second gave two fights, of which the
\* first has no details; both rows are written.
C5_Witness ==
    /\ apc = "done" /\ Len(ev_hist) = 2
    /\ ~ev_hist[1].fetched /\ Len(ev_hist[2].refs) = 2
    /\ ~det_hist[1].fetched /\ det_hist[2].fetched
    /\ files.fights = File(all_fights) /\ Len(all_fights) = 2

(***************************************************************************)
(* C7: build_fighter_index_from_fights visits every fight URL of the file  *)
(* once and writes exactly one row per distinct fighter URL that is        *)
(* neither null nor empty, met in the first two person blocks of the       *)
(* pages fetched (red before blue, fights in input order), with the name   *)
(* seen at the first occurrence of that URL; a fight whose page cannot be  *)
(* fetched or has fewer than two person blocks gives no row, and without   *)
(* any row no file is written.                                             *)
(***************************************************************************)
\* The anchors of the red and the blue corner of a page visited.
PageLinks(doc) ==
    IF doc = NoSoup THEN <<>>
    ELSE IF Len(doc.persons) < 2 THEN <<>>
    ELSE <<doc.persons[1].link, doc.persons[2].link>>

RECURSIVE LinksUpTo(_, _)
LinksUpTo(h, n) == IF n = 0 THEN <<>> ELSE LinksUpTo(h, n - 1) \o PageLinks(h[n].doc)

MetLinks == LinksUpTo(idx_hist, Len(idx_hist))

NonNull(l) == l.present /\ l.href # NoneSeq
NonEmpty(l) == NonNull(l) /\ l.href # <<>>

\* rows holds one row per URL of the links M[i], i \in use, in the order
\* of their first occurrences and with the names of these.
IndexIs(rows, M, use) ==
    LET First(u) == CHOOSE i \in use :
                      /\ M[i].href = u
                      /\ \A j \in use : M[j].href = u => i <= j
    IN  /\ {rows[k].fighter_url : k \in 1..Len(rows)} = {M[i].href : i \in use}
        /\ \A k, l \in 1..Len(rows) :
             k < l => /\ rows[k].fighter_url # rows[l].fighter_url
                      /\ First(rows[k].fighter_url) < First(rows[l].fighter_url)
        /\ \A k \in 1..Len(rows) :
             rows[k].fighter_name = M[First(rows[k].fighter_url)].name

EachFightOnce ==
    LET V == [i \in 1..Len(idx_hist) |-> idx_hist[i].fight_url]
    IN  /\ NoDup(V)
        /\ Range(V) = {r.fight_url : r \in Range(files.fights.rows)} \ {NoneSeq}

FighterIndex(use) ==
    /\ (ipc = "done" /\ ~files.fights.exists) => files.fighters = NoFile
    /\ (ipc = "done" /\ files.fights.exists) =>
         /\ EachFightOnce
         /\ files.fighters.exists <=> use # {}
         /\ IndexIs(files.fighters.rows, MetLinks, use)

\* C7 as stated: a row for every URL that is not null.
C7_Original ==
    FighterIndex({i \in 1..Len(MetLinks) : NonNull(MetLinks[i])})

C7_FirstNamePerUrl ==
    FighterIndex({i \in 1..Len(MetLinks) : NonEmpty(MetLinks[i])})

\* Jon Jones meets Stipe Miocic, then "J. Jones" somebody without a link.
C7_Witness ==
    /\ ipc = "done" /\ Len(idx_hist) = 2
    /\ MetLinks = <<[present |-> TRUE, name |-> "Jon Jones", href |-> hJones],
                    [present |-> TRUE, name |-> "Stipe Miocic", href |-> hMiocic],
                    [present |-> TRUE, name |-> "J. Jones", href |-> hJones],
                    NoLink>>
    /\ files.fighters = File(<<[fighter_name |-> "Jon Jones", fighter_url |-> hJones],
                               [fighter_name |-> "Stipe Miocic", fighter_url |-> hMiocic]>>)

(***************************************************************************)
(* C8: each fight record is the FightRef overridden by the FightDetail     *)
(* of the same fight_url: it has the keys of both, the detail's value for  *)
(* every key of the detail, the ref's value for every other key.           *)
(***************************************************************************)
MergeOf(m, ref, det) ==
    /\ DOMAIN m = DOMAIN ref \cup DOMAIN det
    /\ \A k \in DOMAIN det : m[k] = det[k]
    /\ \A k \in DOMAIN ref \ DOMAIN det : m[k] = ref[k]

RecordsBuilt ==
    /\ Len(all_fights) = Len(det_hist) /\ Len(det_hist) <= Len(AllRefs)
    /\ \A j \in 1..Len(all_fights) : det_hist[j].fight_url = AllRefs[j].fight_url

\* C8 as stated: event_url is a field of the detail that overrides the
\* ref's.
C8_Original ==
    /\ RecordsBuilt
    /\ \A j \in 1..Len(all_fights) :
         /\ MergeOf(all_fights[j], AllRefs[j], det_hist[j].details)
         /\ det_hist[j].fetched => "event_url" \in DOMAIN det_hist[j].details

\* C8 as amended: the only key a detail shares with the ref is fight_url,
\* with the same value; event_url comes from the ref.
C8_DetailOverRef ==
    /\ RecordsBuilt
    /\ \A j \in 1..Len(all_fights) :
         /\ MergeOf(all_fights[j], AllRefs[j], det_hist[j].details)
         /\ DOMAIN det_hist[j].details \cap DOMAIN AllRefs[j] \subseteq {"fight_url"}
         /\ all_fights[j].fight_url = AllRefs[j].fight_url
         /\ all_fights[j].event_url = AllRefs[j].event_url

\* One record with details and one of a fight whose page could not be
\* fetched.
C8_Witness ==
    /\ Len(all_fights) = 2
    /\ det_hist[1].fetched /\ all_fights[1].winner = "Red"
    /\ all_fights[1].red_kd = PyInt(1)
    /\ all_fights[1].weight_class = "Light Heavyweight"
    /\ ~det_hist[2].fetched /\ all_fights[2] = AllRefs[2]

(***************************************************************************)
(* C6: a fetched page without a table whose header has all the markers,    *)
(* or whose first such table has no body, no data row or a first row of    *)
(* fewer than 6 cells, gives a record with the page's winner and with      *)
(* all ten statistics None.                                                *)
(***************************************************************************)
Matching(doc) ==
    {i \in 1..Len(doc.tables) :
        doc.tables[i].thead /\ HeaderMarkers \subseteq doc.tables[i].header}

FirstMatching(doc) == CHOOSE i \in Matching(doc) : \A j \in Matching(doc) : i <= j

NoUsableTotals(doc) ==
    \/ Matching(doc) = {}
    \/ ~doc.tables[FirstMatching(doc)].tbody
    \/ doc.tables[FirstMatching(doc)].rows = <<>>
    \/ doc.tables[FirstMatching(doc)].rows[1].ncells < 6

Fetched == dpc = "done" /\ d_doc # NoSoup

C6_EarlyReturn ==
    (Fetched /\ NoUsableTotals(d_doc)) =>
      /\ DOMAIN result = StatKeys \cup {"fight_url", "winner"}
      /\ result.fight_url = d_url
      /\ result.winner = Winner(d_doc.persons)
      /\ \A k \in StatKeys : result[k] = PyNone

\* The first matching table has a first row of 5 cells, a later table is
\* complete, and blue won.
C6_Witness ==
    /\ Fetched /\ NoUsableTotals(d_doc)
    /\ Matching(d_doc) # {}
    /\ d_doc.tables[FirstMatching(d_doc)].rows = <<ShortRow, GoodRow>>
    /\ Len(d_doc.tables) = 2
    /\ result.winner = "Blue"

(***************************************************************************)
(* C10: every statistic of the record is what its own cell text parses     *)
(* to, a text that does not parse leaving only its own field None: both    *)
(* knockdown counts, and the landed/attempted pairs of both corners.       *)
(***************************************************************************)
TotalsRow(doc) == doc.tables[FirstMatching(doc)].rows[1]

KdValue(text) == IF KdInt(text).ok THEN PyInt(KdInt(text).v) ELSE PyNone

MadeOfFieldsOwn(red_l, red_a, blue_l, blue_a, ps) ==
    Len(ps) >= 2 =>
      /\ result[red_l] = parse_made_of(PyStr(ps[1])).made
      /\ result[red_a] = parse_made_of(PyStr(ps[1])).att
      /\ result[blue_l] = parse_made_of(PyStr(ps[2])).made
      /\ result[blue_a] = parse_made_of(PyStr(ps[2])).att

C10_Original ==
    (Fetched /\ ~NoUsableTotals(d_doc)) =>
      /\ Len(TotalsRow(d_doc).kd) >= 2 =>
           /\ result.red_kd = KdValue(TotalsRow(d_doc).kd[1])
           /\ result.blue_kd = KdValue(TotalsRow(d_doc).kd[2])
      /\ MadeOfFieldsOwn("red_sig_str_landed", "red_sig_str_attempted",
                         "blue_sig_str_landed", "blue_sig_str_attempted",
                         TotalsRow(d_doc).sig)
      /\ MadeOfFieldsOwn("red_td_landed", "red_td_attempted",
                         "blue_td_landed", "blue_td_attempted",
                         TotalsRow(d_doc).td)

\* What holds of the code: blue's knockdown count follows its own text
\* only when red's text parses.
DetailFieldsInv ==
    (Fetched /\ ~NoUsableTotals(d_doc)) =>
      /\ Len(TotalsRow(d_doc).kd) >= 2 =>
           /\ result.red_kd = KdValue(TotalsRow(d_doc).kd[1])
           /\ result.blue_kd = IF result.red_kd = PyNone THEN PyNone
                               ELSE KdValue(TotalsRow(d_doc).kd[2])
      /\ MadeOfFieldsOwn("red_sig_str_landed", "red_sig_str_attempted",
                         "blue_sig_str_landed", "blue_sig_str_attempted",
                         TotalsRow(d_doc).sig)
      /\ MadeOfFieldsOwn("red_td_landed", "red_td_attempted",
                         "blue_td_landed", "blue_td_attempted",
                         TotalsRow(d_doc).td)

(***************************************************************************)
(* C11: of a fetched fight page the winner is Red exactly when there are   *)
(* at least two person blocks and the status text of the first contains    *)
(* "W"; Blue exactly when there are at least two, the first's text lacks   *)
(* "W" and the second's contains it; null in every other case.             *)
(***************************************************************************)
\* Block i of the page exists, has a status element, and its text has a W.
HasW(doc, i) ==
    /\ i <= Len(doc.persons)
    /\ doc.persons[i].status # NoneSeq
    /\ \E k \in 1..Len(doc.persons[i].status) : doc.persons[i].status[k] = "W"

C11_Winner ==
    Fetched =>
      /\ result.winner \in {"Red", "Blue", None}
      /\ result.winner = "Red" <=> (Len(d_doc.persons) >= 2 /\ HasW(d_doc, 1))
      /\ result.winner = "Blue" <=>
           (Len(d_doc.persons) >= 2 /\ ~HasW(d_doc, 1) /\ HasW(d_doc, 2))

\* Both blocks say W, the first inside a longer text: Red.
C11_Witness ==
    /\ Fetched /\ Len(d_doc.persons) >= 2
    /\ d_doc.persons[1].status = <<"W", "I", "N">>
    /\ HasW(d_doc, 2)
    /\ result.winner = "Red"

(***************************************************************************)
(* C12: scrape_fights_for_event returns, in row order, one FightRef per    *)
(* row of the table body that has at least 7 columns and a fight link      *)
(* (the data-link attribute or, failing that, the href of the anchor in    *)
(* column 0); all other rows are passed over and nothing is raised; every  *)
(* FightRef has a non-empty fight_url and the event_url of the call.       *)
(***************************************************************************)
\* The rows of the table body of a page; none without table or body.
BodyRows(doc) == IF doc.table /\ doc.tbody THEN doc.rows ELSE <<>>

HasText(u) == u # NoneSeq /\ u # <<>>

\* The link of a row, NoneSeq if it has none.
LinkOf(row) ==
    IF HasText(row.data_link) THEN row.data_link
    ELSE IF row.a.present /\ HasText(row.a.href) THEN row.a.href
    ELSE NoneSeq

Emitting(doc) ==
    {i \in 1..Len(BodyRows(doc)) :
       BodyRows(doc)[i].ncols >= 7 /\ LinkOf(BodyRows(doc)[i]) # NoneSeq}

C12_OneRefPerRow ==
    /\ gpc # "raised"
    /\ (gpc = "done" /\ g_doc = NoSoup) => g_fights = <<>>
    /\ (gpc = "done" /\ g_doc # NoSoup) =>
         /\ Len(g_fights) = Cardinality(Emitting(g_doc))
         /\ \A i \in Emitting(g_doc) :
              LET k == Cardinality({j \in Emitting(g_doc) : j <= i})
              IN  /\ g_fights[k].fight_url = LinkOf(BodyRows(g_doc)[i])
                  /\ g_fights[k].weight_class = BodyRows(g_doc)[i].weight
         /\ \A k \in 1..Len(g_fights) :
              /\ HasText(g_fights[k].fight_url)
              /\ g_fights[k].event_url = g_event_url

\* A short row, a row with only an anchor, a row whose anchor has no href:
\* the second alone gives a FightRef.
C12_Witness ==
    /\ gpc = "done" /\ g_doc # NoSoup
    /\ BodyRows(g_doc) = <<RowShort, RowAnchor, RowNoLink>>
    /\ Len(g_fights) = 1 /\ g_fights[1].fight_url = FightUrl("2")

(***************************************************************************)
(* C13: on a site whose listing pages do not change during the run,        *)
(* scrape_event_urls makes at most three successful page fetches whatever  *)
(* max_pages is, and the iterations of page index 2 and above add no URL   *)
(* to the result.                                                          *)
(***************************************************************************)
SiteStable == \A u \in ListingURLs : site.fixed[u] # NoSoup

WrittenAtEnd ==
    /\ writes <= 1
    /\ (apc \notin {"idle", "done"} \/ ipc \notin {"idle", "done"}) => writes = 0
    /\ apc = "done" =>
         /\ e_i = Len(event_urls) + 1 /\ Len(ev_hist) = Len(event_urls)
         /\ writes = 1 <=> all_fights # <<>>
         /\ writes = 1 => files.fights = File(all_fights)
    /\ ipc = "done" =>
         /\ files.fights.exists =>
              /\ u_i = Len(unique_fight_urls) + 1
              /\ Len(idx_hist) = Len(unique_fight_urls)
         /\ writes = 1 <=> fighter_rows # <<>>
         /\ writes = 1 => files.fighters.exists /\ files.fighters.rows # <<>>

FilesKept == writes' = writes => files' = files

C14_WriteOnce == []WrittenAtEnd /\ [][FilesKept]_vars

\* Two events visited, no fight found: the file of the earlier run stays.
C14_Witness ==
    /\ apc = "done" /\ Len(ev_hist) = 2 /\ all_fights = <<>>
    /\ writes = 0 /\ files.fights = OldFights

(***************************************************************************)
(* C9: no normalizer raises, whatever its argument (None and non-text      *)
(* arguments included); parse_made_of gives a pair of integers or          *)
(* (None, None), the others a number or None.                              *)
(***************************************************************************)
IntPairOrNones(r) ==
    /\ r.t = "pair"
    /\ \/ r.made.t = "int" /\ r.att.t = "int"
       \/ r.made = PyNone /\ r.att = PyNone

C9_Original ==
    npc = "done" =>
      /\ n_res.t # "raise"
      /\ IF n_fun = "parse_made_of" THEN IntPairOrNones(n_res)
         ELSE n_res.t \in {"none", "int", "float"}

\* What holds of the code: the contract for None and for every text.
NormTextInv ==
    (npc = "done" /\ n_arg.t \in {"none", "str"}) =>
      /\ n_res.t # "raise"
      /\ IF n_fun = "parse_made_of" THEN IntPairOrNones(n_res)
         ELSE n_res.t \in {"none", "int", "float"}

====
